---- MODULE Spec2Model ----
(***************************************************************************)
(* Model of lib/board.js: the Reversi Board, its queries and placePiece.   *)
(*                                                                         *)
(* A position is a pair <<row, col>> (pos[0], pos[1] of the source are     *)
(* pos[1], pos[2] here).  A cell of the grid holds null or a Piece; every  *)
(* Piece object is referenced by exactly one cell, so a piece reference is *)
(* modelled by the position of its cell and the piece's state by its color.*)
(* A call that returns v is the record [err |-> "", val |-> v]; a call     *)
(* that throws Error(msg) is [err |-> msg, val |-> undefined].             *)
(***************************************************************************)
EXTENDS Integers, Sequences, FiniteSets

VARIABLES grid, call, ret, prev, placed, played

vars == <<grid, call, ret, prev, placed, played>>

\* ---- bounds ----

\* number of successful placePiece calls explored from the initial board
\* when the driver makes every kind of call
MaxMoves == 2

\* number of successful placePiece calls explored from the initial board
\* when the driver only places pieces
MaxPlays == 3

\* number of placements of a play-out that are free choices among the legal
\* moves of both colors, before the driver follows the turn order
MaxOpening == 1

\* how far outside the board the position arguments of the calls range
Margin == 1

\* ---- values ----

null == "null"

undefined == "undefined"

Colors == {"white", "black"}

Rows == 0 .. 7

Cols == 0 .. 7

BoardPos == Rows \X Cols

Coord == (0 - Margin) .. (7 + Margin)

ArgPos == Coord \X Coord

Return(v) == [err |-> "", val |-> v]

Throw(msg) == [err |-> msg, val |-> undefined]

\* ---- lib/piece.js (not part of the sources at hand) ----

Piece(color) == color

flip(color) == IF color = "white" THEN "black" ELSE "white"

\* ---- lib/board.js ----

_makeGridSwapped ==
  [r \in Rows |-> [c \in Cols |->
     IF <<r, c>> \in {<<3, 3>>, <<4, 4>>} THEN Piece("black")
     ELSE IF <<r, c>> \in {<<3, 4>>, <<4, 3>>} THEN Piece("white")
     ELSE null]]

_makeGrid ==
  [r \in Rows |-> [c \in Cols |->
     IF <<r, c>> \in {<<3, 3>>, <<4, 4>>} THEN Piece("white")
     ELSE IF <<r, c>> \in {<<3, 4>>, <<4, 3>>} THEN Piece("black")
     ELSE null]]

DIRSTypo ==
  << << 0,  1>>, << 1,  1>>, << 1,  0>>,
     << 1, -1>>, << 0, -1>>, <<-1, -1>>,
     <<-1,  0>>, <<-1, -1>> >>

DIRS ==
  << << 0,  1>>, << 1,  1>>, << 1,  0>>,
     << 1, -1>>, << 0, -1>>, <<-1, -1>>,
     <<-1,  0>>, <<-1,  1>> >>

isValidPos(pos) ==
  LET row == pos[1]
      col == pos[2]
  IN  row >= 0 /\ row <= 7 /\ col >= 0 /\ col <= 7

getPieceNoCheck(g, pos) ==
  IF ~isValidPos(pos) THEN Return(null)
  ELSE LET row == pos[1]
           col == pos[2]
       IN  Return(g[row][col])

getPiece(g, pos) ==
  IF ~isValidPos(pos) THEN Throw("Not valid pos!")
  ELSE LET row == pos[1]
           col == pos[2]
       IN  Return(g[row][col])

isMineSuppressing(g, pos, color) ==
  LET p == getPiece(g, pos)
  IN  IF p.err # "" THEN Return(FALSE)
      ELSE IF p.val = null THEN Return(FALSE)
      ELSE Return(p.val = color)

isMine(g, pos, color) ==
  LET p == getPiece(g, pos)
  IN  IF p.err # "" THEN p
      ELSE IF p.val = null THEN Return(FALSE)
      ELSE Return(p.val = color)

isOccupied(g, pos) ==
  LET p == getPiece(g, pos)
  IN  IF p.err # "" THEN p
      ELSE Return(p.val # null)

\* the result of _positionsToFlip: null, or the list piecesToFlip
NoFlip == [err |-> "", isNull |-> TRUE, list |-> <<>>]

FlipList(acc) == [err |-> "", isNull |-> FALSE, list |-> acc]

FlipThrow(msg) == [err |-> msg, isNull |-> TRUE, list |-> <<>>]

RECURSIVE _positionsToFlip(_, _, _, _, _)

_positionsToFlipNoBracket(board, pos, color, dir, piecesToFlip) ==
  IF ~isValidPos(pos) THEN
    IF Len(piecesToFlip) = 0 THEN NoFlip ELSE FlipList(piecesToFlip)
  ELSE
  LET mine == isMine(board, pos, color)
      occ  == isOccupied(board, pos)
  IN  IF mine.err # "" THEN FlipThrow(mine.err)
      ELSE IF mine.val THEN
        IF Len(piecesToFlip) = 0 THEN NoFlip ELSE FlipList(piecesToFlip)
      ELSE IF occ.err # "" THEN FlipThrow(occ.err)
      ELSE IF ~occ.val THEN
        IF Len(piecesToFlip) = 0 THEN NoFlip ELSE FlipList(piecesToFlip)
      ELSE
        LET next_pos == <<pos[1] + dir[1], pos[2] + dir[2]>>
        IN  _positionsToFlip(board, next_pos, color, dir,
                             Append(piecesToFlip, pos))

_positionsToFlipSkipEmpty(board, pos, color, dir, piecesToFlip) ==
  IF ~isValidPos(pos) THEN NoFlip
  ELSE
  LET mine == isMine(board, pos, color)
      occ  == isOccupied(board, pos)
      next_pos == <<pos[1] + dir[1], pos[2] + dir[2]>>
  IN  IF mine.err # "" THEN FlipThrow(mine.err)
      ELSE IF mine.val THEN
        IF Len(piecesToFlip) = 0 THEN NoFlip ELSE FlipList(piecesToFlip)
      ELSE IF occ.err # "" THEN FlipThrow(occ.err)
      ELSE IF ~occ.val
        THEN _positionsToFlip(board, next_pos, color, dir, piecesToFlip)
        ELSE _positionsToFlip(board, next_pos, color, dir,
                              Append(piecesToFlip, pos))

_positionsToFlipNoLengthCheck(board, pos, color, dir, piecesToFlip) ==
  IF ~isValidPos(pos) THEN NoFlip
  ELSE
  LET mine == isMine(board, pos, color)
      occ  == isOccupied(board, pos)
  IN  IF mine.err # "" THEN FlipThrow(mine.err)
      ELSE IF mine.val THEN FlipList(piecesToFlip)
      ELSE IF occ.err # "" THEN FlipThrow(occ.err)
      ELSE IF ~occ.val THEN NoFlip
      ELSE
        LET next_pos == <<pos[1] + dir[1], pos[2] + dir[2]>>
        IN  _positionsToFlip(board, next_pos, color, dir,
                             Append(piecesToFlip, pos))

_positionsToFlip(board, pos, color, dir, piecesToFlip) ==
  IF ~isValidPos(pos) THEN NoFlip
  ELSE
  LET mine == isMine(board, pos, color)
      occ  == isOccupied(board, pos)
  IN  IF mine.err # "" THEN FlipThrow(mine.err)
      ELSE IF mine.val THEN
        IF Len(piecesToFlip) = 0 THEN NoFlip ELSE FlipList(piecesToFlip)
      ELSE IF occ.err # "" THEN FlipThrow(occ.err)
      ELSE IF ~occ.val THEN NoFlip
      ELSE
        LET next_pos == <<pos[1] + dir[1], pos[2] + dir[2]>>
        IN  _positionsToFlip(board, next_pos, color, dir,
                             Append(piecesToFlip, pos))

\* Board.DIRS.forEach of validMove: the state after the first n directions
RECURSIVE validMoveDirs(_, _, _, _)

validMoveDirs(g, pos, color, n) ==
  IF n = 0 THEN Return(FALSE)
  ELSE
  LET before   == validMoveDirs(g, pos, color, n - 1)
      dir      == DIRS[n]
      next_pos == <<pos[1] + dir[1], pos[2] + dir[2]>>
      pieces   == _positionsToFlip(g, next_pos, color, dir, <<>>)
  IN  IF before.err # "" THEN before
      ELSE IF pieces.err # "" THEN Throw(pieces.err)
      ELSE IF ~pieces.isNull THEN Return(TRUE)
      ELSE before

validMoveNoOccupiedCheck(g, pos, color) ==
  IF ~isValidPos(pos) THEN Return(FALSE)
  ELSE validMoveDirs(g, pos, color, Len(DIRS))

validMove(g, pos, color) ==
  IF ~isValidPos(pos) THEN Return(FALSE)
  ELSE
  LET occ == isOccupied(g, pos)
  IN  IF occ.err # "" THEN occ
      ELSE IF occ.val THEN Return(FALSE)
      ELSE validMoveDirs(g, pos, color, Len(DIRS))

\* the cells in the order the two nested loops of validMoves visit them:
\* for i in 0..7, for j in 0..7
ScanOrder == [k \in 1 .. 64 |-> <<(k - 1) \div 8, (k - 1) % 8>>]

ColumnMajorOrder == [k \in 1 .. 64 |-> <<(k - 1) % 8, (k - 1) \div 8>>]

\* the loops of validMoves over the cells in the given order: the moves
\* pushed, or the error of the first validMove call that throws
validMovesScan(g, color, order) ==
  LET Throwing == {k \in 1 .. Len(order) : validMove(g, order[k], color).err # ""}
      ValidAt(pos) == validMove(g, pos, color).val
  IN  IF Throwing # {}
        THEN validMove(g, order[CHOOSE k \in Throwing :
                                  \A m \in Throwing : k <= m], color)
        ELSE Return(SelectSeq(order, ValidAt))

validMovesColumnMajor(g, color) ==
  validMovesScan(g, color, ColumnMajorOrder)

validMoves(g, color) ==
  validMovesScan(g, color, ScanOrder)

hasMoveInverted(g, color) ==
  LET moves == validMoves(g, color)
  IN  IF moves.err # "" THEN moves
      ELSE Return(Len(moves.val) = 0)

hasMove(g, color) ==
  LET moves == validMoves(g, color)
  IN  IF moves.err # "" THEN moves
      ELSE Return(Len(moves.val) # 0)

isOverMissingNot(g) ==
  LET w == hasMove(g, "white")
      b == hasMove(g, "black")
  IN  IF w.err # "" THEN w
      ELSE IF w.val THEN Return(FALSE)
      ELSE IF b.err # "" THEN b
      ELSE Return(b.val)

\* !hasMove("white") && !hasMove("black"): hasMove("black") is evaluated
\* only when white has no move
isOver(g) ==
  LET w == hasMove(g, "white")
      b == hasMove(g, "black")
  IN  IF w.err # "" THEN w
      ELSE IF w.val THEN Return(FALSE)
      ELSE IF b.err # "" THEN b
      ELSE Return(~b.val)

\* Board.DIRS.forEach of placePiece: pieces after the first n directions
RECURSIVE placePieceDirs(_, _, _, _)

placePieceDirs(g, pos, color, n) ==
  IF n = 0 THEN FlipList(<<>>)
  ELSE
  LET before   == placePieceDirs(g, pos, color, n - 1)
      dir      == DIRS[n]
      next_pos == <<pos[1] + dir[1], pos[2] + dir[2]>>
      pieces_to_concat == _positionsToFlip(g, next_pos, color, dir, <<>>)
  IN  IF before.err # "" THEN before
      ELSE IF pieces_to_concat.err # "" THEN pieces_to_concat
      ELSE IF ~pieces_to_concat.isNull
        THEN FlipList(before.list \o pieces_to_concat.list)
        ELSE before

\* pieces.forEach(piece => piece.flip()): the grid after the first n flips
RECURSIVE flipPieces(_, _, _)

flipPiecesCapture(g, pieces, n) ==
  IF n = 0 THEN g
  ELSE LET h == flipPieces(g, pieces, n - 1)
           p == pieces[n]
       IN  [h EXCEPT ![p[1]][p[2]] = null]

flipPieces(g, pieces, n) ==
  IF n = 0 THEN g
  ELSE LET h == flipPieces(g, pieces, n - 1)
           p == pieces[n]
       IN  [h EXCEPT ![p[1]][p[2]] = flip(h[p[1]][p[2]])]

\* the result of placePiece: what it throws, and the grid it leaves
placePieceWriteFirst(g, pos, color) ==
  LET row == pos[1]
      col == pos[2]
      g1  == IF isValidPos(pos) THEN [g EXCEPT ![row][col] = Piece(color)]
             ELSE g
      v   == validMove(g, pos, color)
      pieces == placePieceDirs(g1, pos, color, Len(DIRS))
  IN  IF v.err # "" THEN [err |-> v.err, grid |-> g1]
      ELSE IF ~v.val THEN [err |-> "Invalid Move", grid |-> g1]
      ELSE IF pieces.err # "" THEN [err |-> pieces.err, grid |-> g1]
      ELSE [err |-> "",
            grid |-> flipPieces(g1, pieces.list, Len(pieces.list))]

placePiece(g, pos, color) ==
  LET v == validMove(g, pos, color)
  IN  IF v.err # "" THEN [err |-> v.err, grid |-> g]
      ELSE IF ~v.val THEN [err |-> "Invalid Move", grid |-> g]
      ELSE
      LET row == pos[1]
          col == pos[2]
          g1  == [g EXCEPT ![row][col] = Piece(color)]
          pieces == placePieceDirs(g1, pos, color, Len(DIRS))
      IN  IF pieces.err # "" THEN [err |-> pieces.err, grid |-> g1]
          ELSE [err |-> "",
                grid |-> flipPieces(g1, pieces.list, Len(pieces.list))]

print(g) == Return(undefined)

\* ---- the Board object and the calls the driver makes on it ----

NoCall == [op |-> "none", pos |-> <<>>, color |-> ""]

Init ==
  /\ grid = _makeGrid
  /\ call = NoCall
  /\ ret = Return(undefined)
  /\ prev = grid
  /\ placed = 0
  /\ played = {}

Idle == call.op = "none"

Record(op, pos, color, r) ==
  /\ call' = [op |-> op, pos |-> pos, color |-> color]
  /\ ret' = r
  /\ prev' = grid

CallIsValidPos(pos) ==
  /\ Record("isValidPos", pos, "", Return(isValidPos(pos)))
  /\ UNCHANGED <<grid, placed, played>>

CallGetPiece(pos) ==
  /\ Record("getPiece", pos, "", getPiece(grid, pos))
  /\ UNCHANGED <<grid, placed, played>>

CallIsOccupied(pos) ==
  /\ Record("isOccupied", pos, "", isOccupied(grid, pos))
  /\ UNCHANGED <<grid, placed, played>>

CallIsMine(pos, color) ==
  /\ Record("isMine", pos, color, isMine(grid, pos, color))
  /\ UNCHANGED <<grid, placed, played>>

CallHasMove(color) ==
  /\ Record("hasMove", <<>>, color, hasMove(grid, color))
  /\ UNCHANGED <<grid, placed, played>>

CallIsOver ==
  /\ Record("isOver", <<>>, "", isOver(grid))
  /\ UNCHANGED <<grid, placed, played>>

CallValidMoveTrial(pos, color) ==
  /\ Record("validMove", pos, color, validMove(grid, pos, color))
  /\ grid' = placePiece(grid, pos, color).grid
  /\ UNCHANGED <<placed, played>>

CallValidMove(pos, color) ==
  /\ Record("validMove", pos, color, validMove(grid, pos, color))
  /\ UNCHANGED <<grid, placed, played>>

CallValidMoves(color) ==
  /\ Record("validMoves", <<>>, color, validMoves(grid, color))
  /\ UNCHANGED <<grid, placed, played>>

CallPrint ==
  /\ Record("print", <<>>, "", print(grid))
  /\ UNCHANGED <<grid, placed, played>>

\* placePiece(pos, color), explored while fewer than bound calls of it
\* have succeeded
PlacePieceWithin(pos, color, bound) ==
  LET r == placePiece(grid, pos, color)
  IN  /\ r.err = "" => placed < bound
      /\ Record("placePiece", pos, color,
                IF r.err = "" THEN Return(undefined) ELSE Throw(r.err))
      /\ grid' = r.grid
      /\ placed' = IF r.err = "" THEN placed + 1 ELSE placed
      /\ played' = IF r.err = "" THEN played \cup {pos} ELSE played

CallPlacePiece(pos, color) == PlacePieceWithin(pos, color, MaxMoves)

PlayPiece(pos, color) == PlacePieceWithin(pos, color, MaxPlays)

\* the call is over and the driver goes on
Resume ==
  /\ ~Idle
  /\ call' = NoCall
  /\ ret' = Return(undefined)
  /\ prev' = grid
  /\ UNCHANGED <<grid, placed, played>>

\* the driver makes its next call when the previous one is over (the
\* operations are synchronous)
Next ==
  \/ Idle /\ \E pos \in ArgPos : CallIsValidPos(pos)
  \/ Idle /\ \E pos \in ArgPos : CallGetPiece(pos)
  \/ Idle /\ \E pos \in ArgPos : CallIsOccupied(pos)
  \/ Idle /\ \E pos \in ArgPos, color \in Colors : CallIsMine(pos, color)
  \/ Idle /\ \E color \in Colors : CallHasMove(color)
  \/ Idle /\ CallIsOver
  \/ Idle /\ \E pos \in ArgPos, color \in Colors : CallValidMove(pos, color)
  \/ Idle /\ \E color \in Colors : CallValidMoves(color)
  \/ Idle /\ CallPrint
  \/ Idle /\ \E pos \in ArgPos, color \in Colors : CallPlacePiece(pos, color)
  \/ Resume

Spec == Init /\ [][Next]_vars

\* a driver that calls placePiece only
NextPlay ==
  \/ Idle /\ \E pos \in ArgPos, color \in Colors : PlayPiece(pos, color)
  \/ Resume

SpecPlay == Init /\ [][NextPlay]_vars

\* ---- play-outs: a driver that makes a legal move while there is one ----

\* the color the driver lets move after n placements: black and white take
\* turns, black first, and a color without a move is passed over
DriverTurn(g, n) ==
  LET next == IF n % 2 = 0 THEN "black" ELSE "white"
  IN  IF hasMove(g, next) = Return(TRUE) THEN next
      ELSE IF next = "white" THEN "black" ELSE "white"

\* the first MaxOpening placements: any legal move of either color
OpeningMove(pos, color) ==
  /\ placed < MaxOpening
  /\ validMove(grid, pos, color) = Return(TRUE)
  /\ PlacePieceWithin(pos, color, Cardinality(BoardPos))

\* afterwards: the first entry of validMoves of the color whose turn it is
GameMove ==
  LET color == DriverTurn(grid, placed)
      moves == validMoves(grid, color).val
  IN  /\ placed >= MaxOpening
      /\ moves # <<>>
      /\ PlacePieceWithin(Head(moves), color, Cardinality(BoardPos))

NextGame ==
  \/ Idle /\ \E pos \in BoardPos, color \in Colors : OpeningMove(pos, color)
  \/ Idle /\ GameMove
  \/ Resume

\* the step of a play-out that places a piece; it can be taken exactly when
\* the driver is between calls and the game is not over
MakesMove ==
  /\ Idle
  /\ \E pos \in BoardPos, color \in Colors :
       /\ grid[pos[1]][pos[2]] = null
       /\ \E n \in DOMAIN DIRS, k \in 1 .. 6 :
            /\ \A i \in 1 .. k + 1 :
                 /\ isValidPos(<<pos[1] + i * DIRS[n][1],
                                 pos[2] + i * DIRS[n][2]>>)
                 /\ grid[pos[1] + i * DIRS[n][1]][pos[2] + i * DIRS[n][2]]
                      = IF i <= k THEN Piece(IF color = "white" THEN "black"
                                                               ELSE "white")
                                  ELSE Piece(color)
  /\ placed' = placed + 1

\* a call that was made returns, and a legal move is made whenever some
\* color has one
SpecGame ==
  Init /\ [][NextGame]_vars /\ WF_vars(Resume) /\ WF_placed(MakesMove)

\* ---- one ray scan, call by call, on any content of the ray ----

\* one activation of _positionsToFlip: what it returns, or the arguments
\* of the call it makes on itself
ScanReturns(result) ==
  [recurse |-> FALSE, result |-> result, pos |-> <<>>, piecesToFlip |-> <<>>]

ScanRecurses(next_pos, acc) ==
  [recurse |-> TRUE, result |-> NoFlip, pos |-> next_pos, piecesToFlip |-> acc]

_positionsToFlipCallNoLengthCheck(board, pos, color, dir, piecesToFlip) ==
  IF ~isValidPos(pos) THEN ScanReturns(NoFlip)
  ELSE
  LET mine == isMine(board, pos, color)
      occ  == isOccupied(board, pos)
  IN  IF mine.err # "" THEN ScanReturns(FlipThrow(mine.err))
      ELSE IF mine.val THEN ScanReturns(FlipList(piecesToFlip))
      ELSE IF occ.err # "" THEN ScanReturns(FlipThrow(occ.err))
      ELSE IF ~occ.val THEN ScanReturns(NoFlip)
      ELSE
        LET next_pos == <<pos[1] + dir[1], pos[2] + dir[2]>>
        IN  ScanRecurses(next_pos, Append(piecesToFlip, pos))

_positionsToFlipCall(board, pos, color, dir, piecesToFlip) ==
  IF ~isValidPos(pos) THEN ScanReturns(NoFlip)
  ELSE
  LET mine == isMine(board, pos, color)
      occ  == isOccupied(board, pos)
  IN  IF mine.err # "" THEN ScanReturns(FlipThrow(mine.err))
      ELSE IF mine.val THEN
        IF Len(piecesToFlip) = 0 THEN ScanReturns(NoFlip)
        ELSE ScanReturns(FlipList(piecesToFlip))
      ELSE IF occ.err # "" THEN ScanReturns(FlipThrow(occ.err))
      ELSE IF ~occ.val THEN ScanReturns(NoFlip)
      ELSE
        LET next_pos == <<pos[1] + dir[1], pos[2] + dir[2]>>
        IN  ScanRecurses(next_pos, Append(piecesToFlip, pos))

\* the cells of the board on the ray from + dir, from + 2 dir, ...
RayLen(from, dir) ==
  Cardinality({k \in 1 .. 7 :
                 isValidPos(<<from[1] + k * dir[1], from[2] + k * dir[2]>>)})

\* the grid that is empty but for the ray, whose k-th cell holds content[k]
RayGrid(from, dir, content) ==
  [r \in Rows |-> [c \in Cols |->
     LET k == IF dir[1] # 0 THEN (r - from[1]) * dir[1]
                            ELSE (c - from[2]) * dir[2]
     IN  IF /\ k \in DOMAIN content
            /\ r = from[1] + k * dir[1]
            /\ c = from[2] + k * dir[2]
           THEN content[k]
           ELSE null]]

\* the scan that validMove and placePiece start for the position from:
\* _positionsToFlip(this, from + dir, color, dir, []), on every content of
\* the ray
InitScan ==
  \E from \in BoardPos, n \in DOMAIN DIRS, color \in Colors :
    \E content \in [1 .. RayLen(from, DIRS[n]) -> {null} \cup Colors] :
      /\ grid = RayGrid(from, DIRS[n], content)
      /\ call = [op |-> "_positionsToFlip", from |-> from, dir |-> DIRS[n],
                 color |-> color,
                 pos |-> <<from[1] + DIRS[n][1], from[2] + DIRS[n][2]>>,
                 piecesToFlip |-> <<>>, visited |-> 0, returned |-> FALSE]
      /\ ret = NoFlip
      /\ prev = grid
      /\ placed = 0
      /\ played = {}

\* the next activation of _positionsToFlip; visited counts the cells of
\* the board the scan has looked at
ScanCall ==
  LET out == _positionsToFlipCall(grid, call.pos, call.color, call.dir,
                                  call.piecesToFlip)
      looked == IF isValidPos(call.pos) THEN 1 ELSE 0
  IN  /\ call.op = "_positionsToFlip"
      /\ ~call.returned
      /\ IF out.recurse
           THEN /\ call' = [call EXCEPT !.pos = out.pos,
                                        !.piecesToFlip = out.piecesToFlip,
                                        !.visited = @ + looked]
                /\ ret' = ret
           ELSE /\ call' = [call EXCEPT !.visited = @ + looked,
                                        !.returned = TRUE]
                /\ ret' = out.result
      /\ UNCHANGED <<grid, prev, placed, played>>

NextScan == ScanCall

SpecScan == InitScan /\ [][NextScan]_vars

\* ---- the vocabulary of the properties ----

Opposite(color) == IF color = "white" THEN "black" ELSE "white"

OnBoard(pos) == pos[1] \in 0 .. 7 /\ pos[2] \in 0 .. 7

At(g, pos) == g[pos[1]][pos[2]]

Step(pos, d, i) == <<pos[1] + i * d[1], pos[2] + i * d[2]>>

Directions == ({-1, 0, 1} \X {-1, 0, 1}) \ {<<0, 0>>}

\* the k cells after pos in direction d hold pieces of the opposite color
\* and the cell after them holds a piece of color
Bracket(g, pos, d, color, k) ==
  /\ k >= 1
  /\ \A i \in 1 .. k :
       /\ OnBoard(Step(pos, d, i))
       /\ At(g, Step(pos, d, i)) = Opposite(color)
  /\ OnBoard(Step(pos, d, k + 1))
  /\ At(g, Step(pos, d, k + 1)) = color

\* the cells of the runs that a piece of color at pos brackets
Bracketed(g, pos, color) ==
  UNION {UNION {IF Bracket(g, pos, d, color, k)
                  THEN {Step(pos, d, i) : i \in 1 .. k}
                  ELSE {} : k \in 1 .. 7} : d \in Directions}

LegalMove(g, pos, color) ==
  /\ OnBoard(pos)
  /\ At(g, pos) = null
  /\ Bracketed(g, pos, color) # {}

RowMajorBefore(p, q) == p[1] < q[1] \/ (p[1] = q[1] /\ p[2] < q[2])

Placing == call.op = "placePiece"

Placed == Placing /\ ret.err = ""

\* ---- C1 ----
\* C1: when validMove(pos, color) is false, placePiece(pos, color) throws
\* 'Invalid Move' and the grid after the call is the grid before it, for
\* on-board and off-board pos alike.
C1_InvalidMoveLeavesGrid ==
  (Placing /\ validMove(prev, call.pos, call.color) = Return(FALSE))
    => (ret.err = "Invalid Move" /\ grid = prev)

\* the spec's example: [0,0] with black on the initial board
C1_Witness ==
  /\ Placing
  /\ placed = 0
  /\ call.pos = <<0, 0>>
  /\ call.color = "black"
  /\ ret.err = "Invalid Move"

\* ---- C2 ----
\* C2: after placePiece(pos, color) with validMove(pos, color) true, the cell
\* pos holds a piece of color, the pieces whose color changed are exactly the
\* pieces of the runs bracketed from pos in the 8 directions, and each of
\* them now has color.
C2_PlaceFlipsBracketedRuns ==
  (Placing /\ validMove(prev, call.pos, call.color) = Return(TRUE))
    => /\ ret.err = ""
       /\ At(grid, call.pos) = call.color
       /\ {p \in BoardPos : At(prev, p) # null /\ At(grid, p) # At(prev, p)}
            = Bracketed(prev, call.pos, call.color)
       /\ \A p \in Bracketed(prev, call.pos, call.color) :
            At(grid, p) = call.color

\* a placement that flips runs in at least two directions
C2_Witness ==
  /\ Placed
  /\ Cardinality({d \in Directions :
                    \E k \in 1 .. 7 :
                      Bracket(prev, call.pos, d, call.color, k)}) >= 2

\* ---- C3 ----
\* C3: validMove(pos, color) never throws and returns true iff pos is on the
\* board, the cell is empty and some direction has a non-empty run of
\* opposite-color pieces from pos+dir followed by a piece of color; it is
\* false for an off-board pos; on the initial board it is true for [2,3],
\* black and false for [0,0], black.
C3_ValidMoveIffBracket ==
  /\ call.op = "validMove"
       => /\ ret.err = ""
          /\ ret.val = LegalMove(prev, call.pos, call.color)
          /\ ~OnBoard(call.pos) => ret.val = FALSE
  /\ placed = 0
       => /\ validMove(grid, <<2, 3>>, "black") = Return(TRUE)
          /\ validMove(grid, <<0, 0>>, "black") = Return(FALSE)

\* validMove answers true on a board that has been played on
C3_Witness ==
  /\ call.op = "validMove"
  /\ placed > 0
  /\ ret.err = ""
  /\ ret.val = TRUE

C5_GetPieceThrowsIffOffBoard ==
  /\ call.op = "getPiece"
       => /\ (ret.err = "Not valid pos!") <=> ~isValidPos(call.pos)
          /\ isValidPos(call.pos) <=> OnBoard(call.pos)
          /\ OnBoard(call.pos)
               => (ret.err = "" /\ ret.val = At(prev, call.pos))
  /\ call.op = "isOccupied"
       => IF OnBoard(call.pos)
            THEN ret.err = "" /\ ret.val = (At(prev, call.pos) # null)
            ELSE ret.err = "Not valid pos!"

C5_Witness ==
  /\ call.op = "getPiece"
  /\ ~OnBoard(call.pos)
  /\ ret.err = "Not valid pos!"

\* ---- C6 ----
\* C6: validMoves(color) is in strict row-major order (hence without
\* duplicates) and holds exactly the on-board positions for which validMove
\* is true; its length is their number.
C6_ValidMovesRowMajor ==
  call.op = "validMoves"
    => /\ ret.err = ""
       /\ \A a, b \in 1 .. Len(ret.val) :
            a < b => RowMajorBefore(ret.val[a], ret.val[b])
       /\ {ret.val[k] : k \in 1 .. Len(ret.val)}
            = {p \in BoardPos : validMove(prev, p, call.color) = Return(TRUE)}
       /\ Len(ret.val)
            = Cardinality({p \in BoardPos :
                             validMove(prev, p, call.color) = Return(TRUE)})

\* a result with moves in several rows, on a board that has been played on
C6_Witness ==
  /\ call.op = "validMoves"
  /\ placed > 0
  /\ ret.err = ""
  /\ Len(ret.val) >= 3
  /\ ret.val[1][1] < ret.val[Len(ret.val)][1]

\* ---- C7 ----
\* C7: isOver() is true iff validMoves(white) and validMoves(black) are both
\* empty, hasMove(color) is true iff validMoves(color) is not empty, and a
\* grid on which neither color brackets anything gives isOver() = true.
C7_IsOverIffNoMoves ==
  /\ call.op = "isOver"
       => /\ ret.err = ""
          /\ ret.val = (/\ validMoves(prev, "white") = Return(<<>>)
                        /\ validMoves(prev, "black") = Return(<<>>))
          /\ (\A p \in BoardPos, c \in Colors : ~LegalMove(prev, p, c))
               => ret.val = TRUE
  /\ call.op = "hasMove"
       => /\ ret.err = ""
          /\ ret.val = (validMoves(prev, call.color) # Return(<<>>))

\* the game is over on a reachable board
C7_Witness ==
  /\ call.op = "isOver"
  /\ ret.err = ""
  /\ ret.val = TRUE

\* ---- C8 ----
\* C8: a newly constructed Board has white pieces at (3,3) and (4,4), black
\* pieces at (3,4) and (4,3), the other 60 cells empty, and isOver() false.
C8_InitialBoard ==
  placed = 0
    => /\ At(grid, <<3, 3>>) = "white"
       /\ At(grid, <<4, 4>>) = "white"
       /\ At(grid, <<3, 4>>) = "black"
       /\ At(grid, <<4, 3>>) = "black"
       /\ Cardinality({p \in BoardPos : At(grid, p) = null}) = 60
       /\ call.op = "isOver" => (ret.err = "" /\ ret.val = FALSE)

C8_Witness ==
  /\ placed = 0
  /\ call.op = "isOver"
  /\ ret.err = ""
  /\ ret.val = FALSE

\* ---- C9 ----
\* C9: in every step of every sequence of calls the grid stays 8x8 and a
\* cell that holds a piece still holds a piece afterwards.
C9_OccupiedStaysOccupied ==
  [][/\ DOMAIN grid' = 0 .. 7
     /\ \A r \in 0 .. 7 : DOMAIN grid'[r] = 0 .. 7
     /\ \A p \in BoardPos : At(grid, p) # null => At(grid', p) # null]_vars

\* a placement that flipped pieces, after an earlier placement
C9_Witness ==
  /\ Placed
  /\ placed >= 2
  /\ \E p \in BoardPos : At(prev, p) # null /\ At(grid, p) # At(prev, p)

\* ---- C10 ----
\* C10: a successful placePiece(pos, color) leaves every cell other than pos
\* and the cells of the bracketed runs as it was: no other empty cell is
\* filled, no piece of color changes, no opposite-color piece outside a
\* bracketed run changes; on the initial board placePiece([2,3], black)
\* changes [2,3] and [3,3] only.
C10_PlaceFrame ==
  Placed
    => /\ \A p \in BoardPos \ ({call.pos} \cup
                                 Bracketed(prev, call.pos, call.color)) :
            At(grid, p) = At(prev, p)
       /\ \A p \in BoardPos \ {call.pos} :
            /\ At(prev, p) = null => At(grid, p) = null
            /\ At(prev, p) = call.color => At(grid, p) = call.color
       /\ (prev = _makeGrid /\ call.pos = <<2, 3>> /\ call.color = "black")
            => {p \in BoardPos : At(grid, p) # At(prev, p)}
                 = {<<2, 3>>, <<3, 3>>}

\* a placement next to opposite-color pieces that it does not bracket
C10_Witness ==
  /\ Placed
  /\ \E d \in Directions :
       /\ OnBoard(Step(call.pos, d, 1))
       /\ At(prev, Step(call.pos, d, 1)) = Opposite(call.color)
       /\ At(grid, Step(call.pos, d, 1)) = Opposite(call.color)

\* ---- C11 ----
\* C11: once placePiece(pos, color) has succeeded, every later
\* placePiece(pos, c), for either color c, throws 'Invalid Move' and leaves
\* the grid unchanged: no position is played successfully twice.
C11_PlayedOnce ==
  [][(Placing' /\ call'.pos \in played)
       => (ret'.err = "Invalid Move" /\ grid' = grid /\ played' = played)]_vars

\* a placePiece on a position played earlier was refused
C11_Witness ==
  /\ Placing
  /\ call.pos \in played
  /\ ret.err = "Invalid Move"
  /\ grid = prev

\* ---- C12 ----
Scanned == call.op = "_positionsToFlip" /\ call.returned

\* the number of cells at the start of the ray that hold opposite-color
\* pieces
LeadingRun(g, from, dir, color) ==
  Cardinality({k \in 1 .. 8 :
                 \A i \in 1 .. k :
                   /\ OnBoard(Step(from, dir, i))
                   /\ At(g, Step(from, dir, i)) = Opposite(color)})

\* C12: the flip-scan started with an empty accumulator at pos+dir returns
\* null when the ray leaves the board, reaches an empty cell, or meets a
\* piece of color before any opposite-color piece; a non-null result is not
\* empty and lists exactly pos+dir, ..., pos+k*dir, all holding
\* opposite-color pieces, with pos+(k+1)*dir on the board and holding a piece
\* of color.
C12_ScanResult ==
  Scanned
    => LET run == LeadingRun(grid, call.from, call.dir, call.color)
           end == Step(call.from, call.dir, run + 1)
       IN  /\ ret.err = ""
           /\ ret = _positionsToFlip(grid, Step(call.from, call.dir, 1),
                                     call.color, call.dir, <<>>)
           /\ ~OnBoard(end) => ret.isNull
           /\ (OnBoard(end) /\ At(grid, end) = null) => ret.isNull
           /\ (OnBoard(end) /\ At(grid, end) = call.color /\ run = 0)
                => ret.isNull
           /\ ~ret.isNull
                => /\ Len(ret.list) >= 1
                   /\ ret.list = [i \in 1 .. Len(ret.list) |->
                                    Step(call.from, call.dir, i)]
                   /\ Bracket(grid, call.from, call.dir, call.color,
                              Len(ret.list))

\* a scan that returned a run of three pieces or more
C12_Witness ==
  /\ Scanned
  /\ ~ret.isNull
  /\ Len(ret.list) >= 3

\* ---- C15 ----
\* C15: on any content of the grid and from any start position on the
\* board, a non-null flip-list has between 1 and 6 pieces and the scan looks
\* at no more than 7 cells.
C15_ScanBounds ==
  call.op = "_positionsToFlip"
    => /\ call.visited <= 7
       /\ (call.returned /\ ~ret.isNull)
            => (Len(ret.list) >= 1 /\ Len(ret.list) <= 6)
       /\ call.returned
            => LET r == _positionsToFlip(grid, Step(call.from, call.dir, 1),
                                         call.color, call.dir, <<>>)
               IN  ~r.isNull => (Len(r.list) >= 1 /\ Len(r.list) <= 6)

\* the longest run: six pieces flipped, seven cells looked at
C15_Witness ==
  /\ Scanned
  /\ ~ret.isNull
  /\ Len(ret.list) = 6
  /\ call.visited = 7

\* ---- C13 ----
\* C13: from a state where isOver() is true no step changes the grid and
\* every placePiece throws 'Invalid Move', so isOver() stays true.  (Stated
\* by contraposition: a step that changes the grid, or is a placePiece that
\* does not throw 'Invalid Move', starts where isOver() is not true.)
C13_OverIsAbsorbing ==
  [][(grid' # grid \/ (Placing' /\ ret'.err # "Invalid Move"))
       => isOver(grid) # Return(TRUE)]_vars

\* placePiece on an empty cell was refused on a board where the game is over
C13_Witness ==
  /\ Placing
  /\ ret.err = "Invalid Move"
  /\ grid = prev
  /\ OnBoard(call.pos)
  /\ At(prev, call.pos) = null
  /\ isOver(prev) = Return(TRUE)

\* ---- C14 ----
\* the grid of the last placePiece after its line 134, and the flip-list of
\* its n-th direction
WithNewPiece == [prev EXCEPT ![call.pos[1]][call.pos[2]] = Piece(call.color)]

FlipListOf(n) ==
  _positionsToFlip(WithNewPiece, Step(call.pos, DIRS[n], 1), call.color,
                   DIRS[n], <<>>)

FlipSetOf(n) ==
  IF FlipListOf(n).isNull THEN {}
  ELSE {FlipListOf(n).list[i] : i \in 1 .. Len(FlipListOf(n).list)}

\* the flip-lists concatenated in the order given for the first n directions
RECURSIVE ConcatInOrder(_, _)

ConcatInOrder(order, n) ==
  IF n = 0 THEN <<>>
  ELSE IF FlipListOf(order[n]).isNull THEN ConcatInOrder(order, n - 1)
  ELSE ConcatInOrder(order, n - 1) \o FlipListOf(order[n]).list

\* the table order rotated by k, and the same backwards
DirOrders ==
  {[n \in 1 .. 8 |-> ((n + k - 1) % 8) + 1] : k \in 0 .. 7}
    \cup {[n \in 1 .. 8 |-> ((8 - n + k) % 8) + 1] : k \in 0 .. 7}

\* C14: in a successful placePiece the flip-lists of the 8 directions are
\* pairwise disjoint, the concatenated list holds no piece twice, every piece
\* in it ends with its color toggled once (not back to its original color),
\* and processing the directions in another order gives the same grid.
C14_FlipListsDisjoint ==
  Placed
    => LET pieces == ConcatInOrder([n \in 1 .. 8 |-> n], 8)
       IN  /\ \A m, n \in 1 .. 8 :
                m # n => FlipSetOf(m) \cap FlipSetOf(n) = {}
           /\ \A i, j \in 1 .. Len(pieces) : i # j => pieces[i] # pieces[j]
           /\ \A i \in 1 .. Len(pieces) :
                /\ At(grid, pieces[i]) # At(prev, pieces[i])
                /\ At(grid, pieces[i]) = Opposite(At(prev, pieces[i]))
           /\ \A order \in DirOrders :
                grid = flipPieces(WithNewPiece, ConcatInOrder(order, 8),
                                  Len(ConcatInOrder(order, 8)))

\* a placement whose concatenated list comes from two directions
C14_Witness ==
  /\ Placed
  /\ Cardinality({n \in 1 .. 8 : ~FlipListOf(n).isNull}) >= 2
  /\ Len(ConcatInOrder([n \in 1 .. 8 |-> n], 8)) >= 2

\* ---- C16 ----
QueryOps ==
  {"isValidPos", "getPiece", "isOccupied", "isMine", "validMove",
   "validMoves", "hasMove", "isOver", "print"}

Count(g, color) == Cardinality({p \in BoardPos : At(g, p) = color})

\* C17: a successful placePiece(pos, color) flips at least one piece: the
\* pieces of color grow by at least 2, the opposite-color pieces shrink by at
\* least 1 and the pieces in all grow by exactly 1.
C17_PlaceFlipsAtLeastOne ==
  Placed
    => /\ \E p \in BoardPos \ {call.pos} :
            /\ At(prev, p) = Opposite(call.color)
            /\ At(grid, p) = call.color
       /\ Count(grid, call.color) >= Count(prev, call.color) + 2
       /\ Count(grid, Opposite(call.color))
            <= Count(prev, Opposite(call.color)) - 1
       /\ Count(grid, "white") + Count(grid, "black")
            = Count(prev, "white") + Count(prev, "black") + 1

\* the third placement, flipping two pieces or more
C17_Witness ==
  /\ Placed
  /\ Count(grid, call.color) >= Count(prev, call.color) + 3
  /\ Count(grid, "white") + Count(grid, "black") = 7

\* ---- C19 ----
Occupied(g) == {p \in BoardPos : At(g, p) # null}

Adjacent(p, q) ==
  /\ p # q
  /\ p[1] - q[1] \in {-1, 0, 1}
  /\ p[2] - q[2] \in {-1, 0, 1}

\* the cells of cells that chains of adjacent cells of cells link to reached
RECURSIVE LinkedTo(_, _)

LinkedTo(reached, cells) ==
  LET more == {p \in cells \ reached : \E q \in reached : Adjacent(p, q)}
  IN  IF more = {} THEN reached ELSE LinkedTo(reached \cup more, cells)

\* C19: on every board reached by successful placePiece calls the occupied
\* cells are connected under 8-neighbour adjacency, and every newly placed
\* piece is adjacent to a cell that held an opposite-color piece before the
\* move.
C19_OccupiedConnected ==
  /\ LinkedTo({<<3, 3>>}, Occupied(grid)) = Occupied(grid)
  /\ Placed
       => \E q \in BoardPos :
            /\ Adjacent(call.pos, q)
            /\ At(prev, q) = Opposite(call.color)

\* the third placement, on a board of seven connected pieces
C19_Witness ==
  /\ Placed
  /\ Cardinality(Occupied(grid)) = 7
  /\ \E q \in BoardPos :
       /\ Adjacent(call.pos, q)
       /\ At(prev, q) = Opposite(call.color)
       /\ At(grid, q) = call.color

\* ---- C18 ----
\* C18: the number of pieces is 4 plus the number of successful placePiece
\* calls and never exceeds 64, so at most 60 calls succeed; a play-out in
\* which a legal move is made whenever some color has one reaches a state
\* where isOver() is true, which is a state where no color has a legal move.
C18_PlayOutsEnd ==
  /\ [](/\ placed <= 60
        /\ Cardinality({p \in BoardPos : At(grid, p) # null}) = 4 + placed
        /\ Cardinality({p \in BoardPos : At(grid, p) # null}) <= 64
        /\ isOver(grid) = Return(TRUE)
             <=> ~\E pos \in BoardPos, color \in Colors :
                    LegalMove(grid, pos, color))
  /\ <>(isOver(grid) = Return(TRUE))

\* a play-out that ended on a full board after 60 placements
C18_Witness ==
  /\ placed = 60
  /\ \A p \in BoardPos : At(grid, p) # null
  /\ isOver(grid) = Return(TRUE)

====
